---- MODULE Spec2Model ----
(***************************************************************************)
(* State-machine model of the WebSocket chat room server (src/server.js,   *)
(* lines 1-219): the clients Map, the transport's set of sockets           *)
(* (wss.clients) with each socket's readyState, and one action per         *)
(* transport callback (connection, message, close, error).                 *)
(*                                                                         *)
(* Strings are sequences of one-character strings.  Literal text of the    *)
(* server's messages appears as single multi-character tokens inside such  *)
(* sequences, so template strings are modelled by concatenation.           *)
(***************************************************************************)
EXTENDS Integers, Sequences, FiniteSets, TLC

(***************************************************************************)
(* Bounds and program constants                                            *)
(***************************************************************************)
\* number of socket objects the transport can hand to the server
NumConns == 2

\* the outbound queue of an observed socket shows what the last Horizon
\* callbacks submitted to it
Horizon == 2

\* nickname length limits of the SET_NICKNAME handler
MinNickLen == 2
MaxNickLen == 15

Handles == 1..NumConns

\* "no senderWs argument" of broadcast(payload, senderWs)
NoSender == 0

(***************************************************************************)
(* JavaScript values and strings                                           *)
(***************************************************************************)
Null == [t |-> "null"]
Undefined == [t |-> "undefined"]
Num(n) == [t |-> "number", n |-> n]
Str(s) == [t |-> "string", s |-> s]

\* JavaScript truthiness of the values above
Truthy(v) ==
  CASE v.t = "string" -> v.s # <<>>
    [] v.t = "number" -> v.n # 0
    [] OTHER -> FALSE

\* typeof v === "string"
IsString(v) == v.t = "string"

\* UTF-16 code unit of a character (what Array.prototype.sort compares)
CharCode(ch) ==
  CASE ch = " " -> 32
    [] ch = "A" -> 65
    [] ch = "B" -> 66
    [] ch = "a" -> 97
    [] ch = "b" -> 98
    [] OTHER -> 12288

IsWhiteSpace(ch) == ch = " "

ToLowerChar(ch) ==
  CASE ch = "A" -> "a"
    [] ch = "B" -> "b"
    [] OTHER -> ch

\* String.prototype.toLowerCase
toLowerCase(s) == [i \in 1..Len(s) |-> ToLowerChar(s[i])]

RECURSIVE TrimStart(_)
TrimStart(s) ==
  IF s = <<>> THEN s
  ELSE IF IsWhiteSpace(Head(s)) THEN TrimStart(Tail(s)) ELSE s

RECURSIVE TrimEnd(_)
TrimEnd(s) ==
  IF s = <<>> THEN s
  ELSE IF IsWhiteSpace(s[Len(s)]) THEN TrimEnd(SubSeq(s, 1, Len(s) - 1)) ELSE s

\* String.prototype.trim
trim(s) == TrimEnd(TrimStart(s))

\* n copies of the character ch
RECURSIVE Rep(_, _)
Rep(ch, n) == IF n = 0 THEN <<>> ELSE <<ch>> \o Rep(ch, n - 1)

\* a <= b in the order of the default Array.prototype.sort (code units)
RECURSIVE StrLeq(_, _)
StrLeq(a, b) ==
  IF a = <<>> THEN TRUE
  ELSE IF b = <<>> THEN FALSE
  ELSE IF CharCode(Head(a)) < CharCode(Head(b)) THEN TRUE
  ELSE IF CharCode(Head(a)) > CharCode(Head(b)) THEN FALSE
  ELSE StrLeq(Tail(a), Tail(b))

RECURSIVE SortInsert(_, _)
SortInsert(x, sorted) ==
  IF sorted = <<>> THEN <<x>>
  ELSE IF StrLeq(x, Head(sorted)) THEN <<x>> \o sorted
  ELSE <<Head(sorted)>> \o SortInsert(x, Tail(sorted))

\* Array.prototype.sort() without a comparator, on an array of strings
RECURSIVE sort(_)
sort(arr) == IF arr = <<>> THEN <<>> ELSE SortInsert(Head(arr), sort(Tail(arr)))

(***************************************************************************)
(* State                                                                   *)
(***************************************************************************)
VARIABLES
  wssClients,  \* wss.clients: the transport's Set of sockets
  readyState,  \* ws.readyState of every socket object
  clients,     \* the clients Map: socket -> metadata, or NoEntry
  ev,          \* the callback that ran last, with its input
  log,         \* what that callback did, in order: Map writes and sends
  freed,       \* the display name that the callback before it gave up
  broken,      \* the open sockets whose connection has failed underneath:
               \* a send to them fails, and the transport has not yet
               \* reported the error
  outbox       \* for each observed socket, its outbound queue: one entry
               \* for each message submitted to it, first submitted first;
               \* the entry is the age of the callback that submitted it
               \* (0: the last callback, 1: the one before)

vars == <<wssClients, readyState, clients, ev, log, freed, broken, outbox>>

\* clients.get(ws) of a socket that is not a key of the Map
NoEntry == [absent |-> TRUE]

has(cl, ws) == cl[ws] # NoEntry

\* no display name was given up
NoneFreed == [ws |-> 0, name |-> <<>>]

\* the display name that callback e, which did l, took away from its socket:
\* the old name of an accepted rename, the name of a named socket that closed
Freed(e, l) ==
  IF e.type = "message" /\ Len(l) >= 1 /\ l[1].op = "username" /\ l[1].old.t = "string"
  THEN [ws |-> e.ws, name |-> l[1].old.s]
  ELSE IF e.type = "close" /\ Len(l) >= 1 /\ l[1].op = "clients.delete"
          /\ "username" \in DOMAIN l[1].was /\ l[1].was.username.t = "string"
  THEN [ws |-> e.ws, name |-> l[1].was.username.s]
  ELSE NoneFreed

\* the server right after it was started
Started ==
  /\ wssClients = {}
  /\ readyState = [h \in Handles |-> "CLOSED"]
  /\ clients = [h \in Handles |-> NoEntry]
  /\ ev = [type |-> "start"]
  /\ log = <<>>
  /\ freed = NoneFreed
  /\ broken = {}

\* no socket is observed
Init == Started /\ outbox = <<>>

(***************************************************************************)
(* What a callback does, as entries of log                                 *)
(***************************************************************************)
\* client.send(JSON.stringify(payload)) on socket ws
SendTo(ws, payload) == [op |-> "send", ws |-> ws, payload |-> payload]

\* clients.set(ws, metadata)
MapSet(ws) == [op |-> "clients.set", ws |-> ws]

\* clients.delete(ws), with the entry clients.get(ws) returned before it
MapDelete(ws, userInfo) == [op |-> "clients.delete", ws |-> ws, was |-> userInfo]

\* senderInfo.username = newNickname
SetUsername(ws, old, new) == [op |-> "username", ws |-> ws, old |-> old, new |-> new]

\* the result of a callback: the Map it leaves and what it did
Result(cl, did) == [clients |-> cl, log |-> did]

(***************************************************************************)
(* Helpers of the server                                                   *)
(***************************************************************************)
\* isNicknameInUse with the toLowerCase calls left out
isNicknameInUseCaseSensitive(cl, nickname) ==
  \E h \in Handles :
    /\ has(cl, h)
    /\ Truthy(cl[h].username)
    /\ cl[h].username.s = nickname

\* isNicknameInUse with "return false" inside the loop: only one entry of
\* the Map, the registered socket of lowest number, is looked at
isNicknameInUseFirstOnly(cl, nickname) ==
  \E h \in Handles :
    /\ has(cl, h)
    /\ \A g \in Handles : has(cl, g) => h <= g
    /\ Truthy(cl[h].username)
    /\ toLowerCase(cl[h].username.s) = toLowerCase(nickname)

isNicknameInUse(cl, nickname) ==
  \E h \in Handles :
    /\ has(cl, h)
    /\ Truthy(cl[h].username)
    /\ toLowerCase(cl[h].username.s) = toLowerCase(nickname)

\* the sockets of wss.clients that one broadcast sends to.  forEach visits
\* a Set in insertion order; that order is not kept, the sockets are listed
\* by number, each at most once as forEach visits each once
RECURSIVE RecipientsFrom(_, _, _, _)
RecipientsFrom(wss, rs, senderWs, client) ==
  IF client > NumConns THEN <<>>
  ELSE IF /\ client \in wss
          /\ ~(senderWs # NoSender /\ client = senderWs)
          /\ rs[client] = "OPEN"
       THEN <<client>> \o RecipientsFrom(wss, rs, senderWs, client + 1)
       ELSE RecipientsFrom(wss, rs, senderWs, client + 1)

Recipients(wss, rs, senderWs) == RecipientsFrom(wss, rs, senderWs, 1)

\* broadcast that a failing send aborts: the recipients after the first
\* socket whose send fails are not served
broadcastStopsAtFailure(wss, rs, payload, senderWs) ==
  LET to == Recipients(wss, rs, senderWs)
      failing == {i \in 1..Len(to) : to[i] \in broken}
      last == IF failing = {} THEN Len(to)
              ELSE CHOOSE i \in failing : \A k \in failing : i <= k
  IN [i \in 1..last |-> SendTo(to[i], payload)]

\* broadcast that does not test the recipient's readyState
broadcastIgnoringReadyState(wss, rs, payload, senderWs) ==
  LET to == Recipients(wss, [h \in Handles |-> "OPEN"], senderWs)
  IN [i \in 1..Len(to) |-> SendTo(to[i], payload)]

\* broadcast that never skips the sender
broadcastToAll(wss, rs, payload, senderWs) ==
  LET to == Recipients(wss, rs, NoSender)
  IN [i \in 1..Len(to) |-> SendTo(to[i], payload)]

broadcast(wss, rs, payload, senderWs) ==
  LET to == Recipients(wss, rs, senderWs)
  IN [i \in 1..Len(to) |-> SendTo(to[i], payload)]

\* Array.from(clients.values()).map(c => c.username).filter(u => u)
RECURSIVE UsernamesFrom(_, _)
UsernamesFrom(cl, h) ==
  IF h > NumConns THEN <<>>
  ELSE IF has(cl, h) /\ Truthy(cl[h].username)
       THEN <<cl[h].username.s>> \o UsernamesFrom(cl, h + 1)
       ELSE UsernamesFrom(cl, h + 1)

UserListPayload(cl) ==
  [type |-> "USER_LIST_UPDATE", users |-> sort(UsernamesFrom(cl, 1))]

broadcastUserList(wss, rs, cl) == broadcast(wss, rs, UserListPayload(cl), NoSender)

(***************************************************************************)
(* Outbound payloads.  The server's literal text is one token per piece;   *)
(* the tokens are English renderings of the Chinese literals.              *)
(***************************************************************************)
\* "系统"
SystemSender == <<"System">>

\* line 104: "错误: 昵称长度必须在2-15个字符之间。"
LengthErrorPayload ==
  [type |-> "SYSTEM",
   message |-> <<"Error: nickname length must be between 2 and 15 characters.">>]

\* line 113: `错误: 昵称 "${newNickname}" 已被占用，请换一个。`
NameTakenPayload(newNickname) ==
  [type |-> "SYSTEM",
   message |-> <<"Error: nickname [">> \o newNickname \o <<"] is taken, choose another.">>]

\* lines 127-132: `欢迎 ${newNickname} 来到聊天室！` with the confirmed nickname
ConfirmPayload(newNickname) ==
  [type |-> "SYSTEM",
   sender |-> SystemSender,
   message |-> <<"Welcome ">> \o newNickname \o <<" to the chat room!">>,
   nickname |-> newNickname]

\* lines 136-138: `${oldUsername} 更名为 ${newNickname}` or
\* `${newNickname} 加入了聊天室。`
JoinPayload(oldUsername, newNickname) ==
  [type |-> "SYSTEM",
   message |-> IF Truthy(oldUsername)
               THEN oldUsername.s \o <<" renamed to ">> \o newNickname
               ELSE newNickname \o <<" joined the chat room.">>]

\* lines 150-154
ChatPayload(username, message) ==
  [type |-> "CHAT", sender |-> username, message |-> trim(message)]

\* lines 164-167
TypingPayload(type, username) == [type |-> type, sender |-> username]

\* lines 194-198: `${userInfo.username} 离开了聊天室。`
LeavePayload(username) ==
  [type |-> "SYSTEM",
   sender |-> SystemSender,
   message |-> username \o <<" left the chat room.">>]

(***************************************************************************)
(* Inbound frames: what JSON.parse makes of the text a client sent         *)
(***************************************************************************)
\* nickname strings a client may send
NicknameStrings ==
  { <<>>, <<" ">>, <<"a">>, <<" ", "a", " ">>,
    <<"a", "b">>, <<"A", "B">>, <<" ", "a", "b", " ">>,
    <<"a", " ", "b">>,
    Rep("a", MaxNickLen), <<" ">> \o Rep("a", MaxNickLen) \o <<" ">>,
    Rep("a", MaxNickLen + 1) }

\* values of data.nickname
NicknameValues == {Undefined, Num(0), Num(7)} \cup {Str(s) : s \in NicknameStrings}

\* values of data.message
MessageValues ==
  {Undefined, Num(7)} \cup
  {Str(s) : s \in {<<>>, <<" ">>, <<"a">>, <<" ", "a", " ", "b", " ">>}}

SetNicknameFrames ==
  {[json |-> "object", type |-> "SET_NICKNAME", nickname |-> v] : v \in NicknameValues}

ChatFrames ==
  {[json |-> "object", type |-> "CHAT", message |-> v] : v \in MessageValues}

TypingFrames ==
  {[json |-> "object", type |-> t] : t \in {"TYPING_START", "TYPING_STOP"}}

\* text that is not JSON, JSON null, a JSON number, an object of another type
OtherFrames ==
  {[json |-> "invalid"], [json |-> "null"], [json |-> "number"],
   [json |-> "object", type |-> "PING"]}

(***************************************************************************)
(* The message callback, one operator per case of its switch               *)
(***************************************************************************)
\* the length test with the upper limit excluded
InvalidLengthExclusive(newNickname) ==
  \/ newNickname = <<>>
  \/ Len(newNickname) < MinNickLen
  \/ Len(newNickname) >= MaxNickLen

\* lines 96-100: the length test
InvalidLength(newNickname) ==
  \/ newNickname = <<>>
  \/ Len(newNickname) < MinNickLen
  \/ Len(newNickname) > MaxNickLen

\* a rejection that broadcasts the error instead of sending it to ws
RejectToAll(cl, wss, rs, ws, payload) ==
  Result(cl, broadcast(wss, rs, payload, NoSender))

\* lines 101-107 and 110-116: the error goes to the requester, then return
Reject(cl, wss, rs, ws, payload) == Result(cl, <<SendTo(ws, payload)>>)

\* an acceptance whose user list skips the requester
AcceptListSkipsRequester(cl, wss, rs, ws, oldUsername, newNickname) ==
  LET cl2 == [cl EXCEPT ![ws].username = Str(newNickname)]
  IN Result(cl2,
            <<SetUsername(ws, oldUsername, newNickname)>>
            \o <<SendTo(ws, ConfirmPayload(newNickname))>>
            \o broadcast(wss, rs, JoinPayload(oldUsername, newNickname), ws)
            \o broadcast(wss, rs, UserListPayload(cl2), ws))

\* an accepted nickname whose write to the registry is lost
AcceptWithoutWrite(cl, wss, rs, ws, oldUsername, newNickname) ==
  LET cl2 == [cl EXCEPT ![ws].username = Str(newNickname)]
  IN Result(cl,
            <<SetUsername(ws, oldUsername, newNickname)>>
            \o <<SendTo(ws, ConfirmPayload(newNickname))>>
            \o broadcast(wss, rs, JoinPayload(oldUsername, newNickname), ws)
            \o broadcastUserList(wss, rs, cl2))

\* lines 119-141: store the nickname, confirm it, announce it, send the list
Accept(cl, wss, rs, ws, oldUsername, newNickname) ==
  LET cl2 == [cl EXCEPT ![ws].username = Str(newNickname)]
  IN Result(cl2,
            <<SetUsername(ws, oldUsername, newNickname)>>
            \o <<SendTo(ws, ConfirmPayload(newNickname))>>
            \o broadcast(wss, rs, JoinPayload(oldUsername, newNickname), ws)
            \o broadcastUserList(wss, rs, cl2))

\* a SET_NICKNAME case whose name-in-use test leaves out the requester
SetNicknameResultSkipsSelf(cl, wss, rs, ws, data) ==
  LET senderInfo == cl[ws]
      oldUsername == senderInfo.username
  IN
  IF Truthy(data.nickname) /\ ~IsString(data.nickname)
  THEN Result(cl, <<>>)
  ELSE
  LET newNickname == IF Truthy(data.nickname) THEN trim(data.nickname.s) ELSE <<>>
  IN
  IF InvalidLength(newNickname)
  THEN Reject(cl, wss, rs, ws, LengthErrorPayload)
  ELSE IF isNicknameInUse([cl EXCEPT ![ws] = NoEntry], newNickname)
  THEN Reject(cl, wss, rs, ws, NameTakenPayload(newNickname))
  ELSE Accept(cl, wss, rs, ws, oldUsername, newNickname)

\* lines 91-141: the SET_NICKNAME case
SetNicknameResult(cl, wss, rs, ws, data) ==
  LET senderInfo == cl[ws]
      oldUsername == senderInfo.username
  IN
  IF Truthy(data.nickname) /\ ~IsString(data.nickname)
  THEN \* data.nickname.trim is not a function: TypeError, caught at line 176
       Result(cl, <<>>)
  ELSE
  LET newNickname == IF Truthy(data.nickname) THEN trim(data.nickname.s) ELSE <<>>
  IN
  IF InvalidLength(newNickname)
  THEN Reject(cl, wss, rs, ws, LengthErrorPayload)
  ELSE IF isNicknameInUse(cl, newNickname)
  THEN Reject(cl, wss, rs, ws, NameTakenPayload(newNickname))
  ELSE Accept(cl, wss, rs, ws, oldUsername, newNickname)

\* the CHAT case with the body tested before it is trimmed
ChatResultUntrimmedTest(cl, wss, rs, ws, data) ==
  LET senderInfo == cl[ws]
  IN
  IF /\ Truthy(senderInfo.username)
     /\ IsString(data.message)
     /\ data.message.s # <<>>
  THEN Result(cl, broadcast(wss, rs, ChatPayload(senderInfo.username.s, data.message.s), ws))
  ELSE Result(cl, <<>>)

ChatResult(cl, wss, rs, ws, data) ==
  LET senderInfo == cl[ws]
  IN
  IF /\ Truthy(senderInfo.username)
     /\ IsString(data.message)
     /\ trim(data.message.s) # <<>>
  THEN Result(cl, broadcast(wss, rs, ChatPayload(senderInfo.username.s, data.message.s), ws))
  ELSE Result(cl, <<>>)

TypingResultFixedType(cl, wss, rs, ws, data) ==
  LET senderInfo == cl[ws]
  IN
  IF Truthy(senderInfo.username)
  THEN Result(cl, broadcast(wss, rs, TypingPayload("TYPING_START", senderInfo.username.s), ws))
  ELSE Result(cl, <<>>)

\* lines 160-171: TYPING_START and TYPING_STOP of a named sender are relayed
\* with the sender's name to everyone else
TypingResult(cl, wss, rs, ws, data) ==
  LET senderInfo == cl[ws]
  IN
  IF Truthy(senderInfo.username)
  THEN Result(cl, broadcast(wss, rs, TypingPayload(data.type, senderInfo.username.s), ws))
  ELSE Result(cl, <<>>)

\* a close callback that forgets clients.delete(ws)
CloseResultNoDelete(cl, wss, rs, ws) ==
  LET userInfo == cl[ws]
  IN
  IF has(cl, ws) /\ Truthy(userInfo.username)
  THEN Result(cl,
              broadcast(wss, rs, LeavePayload(userInfo.username.s), NoSender)
              \o broadcastUserList(wss, rs, cl))
  ELSE Result(cl, <<>>)

\* a close callback that sends the user list whoever left
CloseResultAlwaysList(cl, wss, rs, ws) ==
  LET userInfo == cl[ws]
      cl2 == [cl EXCEPT ![ws] = NoEntry]
  IN
  IF has(cl, ws) /\ Truthy(userInfo.username)
  THEN Result(cl2,
              <<MapDelete(ws, userInfo)>>
              \o broadcast(wss, rs, LeavePayload(userInfo.username.s), NoSender)
              \o broadcastUserList(wss, rs, cl2))
  ELSE Result(cl2, <<MapDelete(ws, userInfo)>> \o broadcastUserList(wss, rs, cl2))

\* a close callback that deletes the entry after the broadcasts
CloseResultDeleteLast(cl, wss, rs, ws) ==
  LET userInfo == cl[ws]
      cl2 == [cl EXCEPT ![ws] = NoEntry]
  IN
  IF has(cl, ws) /\ Truthy(userInfo.username)
  THEN Result(cl2,
              broadcast(wss, rs, LeavePayload(userInfo.username.s), NoSender)
              \o broadcastUserList(wss, rs, cl)
              \o <<MapDelete(ws, userInfo)>>)
  ELSE Result(cl2, <<MapDelete(ws, userInfo)>>)

\* the close callback, run after the transport has closed the socket
CloseResult(cl, wss, rs, ws) ==
  LET userInfo == cl[ws]
      cl2 == [cl EXCEPT ![ws] = NoEntry]
  IN
  IF has(cl, ws) /\ Truthy(userInfo.username)
  THEN Result(cl2,
              <<MapDelete(ws, userInfo)>>
              \o broadcast(wss, rs, LeavePayload(userInfo.username.s), NoSender)
              \o broadcastUserList(wss, rs, cl2))
  ELSE Result(cl2, <<MapDelete(ws, userInfo)>>)

\* a connection callback that announces the newcomer to every open socket
ConnectionResultAnnounces(cl, wss, rs, ws) ==
  LET cl2 == [cl EXCEPT ![ws] = [id |-> ws, username |-> Null]]
  IN Result(cl2,
            <<MapSet(ws)>>
            \o broadcast(wss, rs,
                         [type |-> "SYSTEM", message |-> <<"A user joined the chat room.">>],
                         NoSender))

\* lines 74-80: the connection callback stores the metadata, username null,
\* and sends nothing
ConnectionResult(cl, wss, rs, ws) ==
  Result([cl EXCEPT ![ws] = [id |-> ws, username |-> Null]], <<MapSet(ws)>>)

\* a message callback that answers what it cannot handle with an error
DiscardResultReplies(cl, wss, rs, ws, data) ==
  Result(cl, <<SendTo(ws, [type |-> "SYSTEM", message |-> <<"Error: bad message.">>])>>)

\* lines 173-182: the default case and the catch block only log
DiscardResult(cl, wss, rs, ws, data) == Result(cl, <<>>)

\* an error callback that cleans up as the close callback does
ErrorResultCleansUp(cl, wss, rs, ws) == CloseResult(cl, wss, rs, ws)

\* lines 208-210: the error callback only logs
ErrorResult(cl, wss, rs, ws) == Result(cl, <<>>)

\* a send that puts the message at the head of the socket's queue
SubmitAtHead(q, l, h) ==
  LET older == [i \in 1..Len(q) |-> q[i] + 1]
      n == Cardinality({i \in 1..Len(l) : l[i].op = "send" /\ l[i].ws = h})
  IN [i \in 1..n |-> 0] \o SelectSeq(older, LAMBDA a : a < Horizon)

\* line 53, client.send(message), for every send of the log l to socket h:
\* the message is put at the end of the socket's outbound queue q, whose
\* entries are one callback older by now
Submit(q, l, h) ==
  LET older == [i \in 1..Len(q) |-> q[i] + 1]
      n == Cardinality({i \in 1..Len(l) : l[i].op = "send" /\ l[i].ws = h})
  IN SelectSeq(older, LAMBDA a : a < Horizon) \o [i \in 1..n |-> 0]

\* the queues of the observed sockets after a callback that did l
Submitted(out, l) == [h \in DOMAIN out |-> Submit(out[h], l, h)]

(***************************************************************************)
(* Actions: one per transport callback                                     *)
(***************************************************************************)
\* wss.on("connection"): the transport has added the open socket to
\* wss.clients; the callback registers it without a username
Connection(ws) ==
  /\ readyState[ws] = "CLOSED"
  /\ ws \notin wssClients
  /\ LET wss == wssClients \cup {ws}
         rs == [readyState EXCEPT ![ws] = "OPEN"]
         r == ConnectionResult(clients, wss, rs, ws)
     IN /\ wssClients' = wss
        /\ readyState' = rs
        /\ clients' = r.clients
        /\ log' = r.log
        /\ outbox' = Submitted([h \in DOMAIN outbox |->
                                  IF h = ws THEN <<>> ELSE outbox[h]], r.log)
  /\ ev' = [type |-> "connection", ws |-> ws]
  /\ freed' = Freed(ev, log)
  /\ UNCHANGED broken

\* a message callback leaves the transport alone
Handled(ws, data, r) ==
  /\ clients' = r.clients
  /\ log' = r.log
  /\ outbox' = Submitted(outbox, r.log)
  /\ ev' = [type |-> "message", ws |-> ws, data |-> data]
  /\ freed' = Freed(ev, log)
  /\ UNCHANGED <<wssClients, readyState, broken>>

\* ws.on("message"), case "SET_NICKNAME"
SetNickname(ws, data) ==
  /\ readyState[ws] = "OPEN"
  /\ data \in SetNicknameFrames
  /\ Handled(ws, data, SetNicknameResult(clients, wssClients, readyState, ws, data))

\* ws.on("message"), case "CHAT"
Chat(ws, data) ==
  /\ readyState[ws] = "OPEN"
  /\ data \in ChatFrames
  /\ Handled(ws, data, ChatResult(clients, wssClients, readyState, ws, data))

\* ws.on("message"), cases "TYPING_START" and "TYPING_STOP"
Typing(ws, data) ==
  /\ readyState[ws] = "OPEN"
  /\ data \in TypingFrames
  /\ Handled(ws, data, TypingResult(clients, wssClients, readyState, ws, data))

\* ws.on("message"), the default case and the catch block: logged only
Discard(ws, data) ==
  /\ readyState[ws] = "OPEN"
  /\ data \in OtherFrames
  /\ Handled(ws, data, DiscardResult(clients, wssClients, readyState, ws, data))

\* ws.on("error"): the transport reports an error on an open socket and
\* starts closing it; the callback only logs
Error(ws) ==
  /\ readyState[ws] = "OPEN"
  /\ LET rs == [readyState EXCEPT ![ws] = "CLOSING"]
         r == ErrorResult(clients, wssClients, rs, ws)
     IN /\ readyState' = rs
        /\ clients' = r.clients
        /\ log' = r.log
        /\ outbox' = Submitted(outbox, r.log)
  /\ ev' = [type |-> "error", ws |-> ws]
  /\ freed' = Freed(ev, log)
  /\ broken' = broken \ {ws}
  /\ UNCHANGED wssClients

\* ws.on("close"): the transport has closed the socket and dropped it from
\* wss.clients; the callback removes it from the Map and announces it
Close(ws) ==
  /\ ws \in wssClients
  /\ LET wss == wssClients \ {ws}
         rs == [readyState EXCEPT ![ws] = "CLOSED"]
         r == CloseResult(clients, wss, rs, ws)
     IN /\ wssClients' = wss
        /\ readyState' = rs
        /\ clients' = r.clients
        /\ log' = r.log
        /\ outbox' = Submitted(outbox, r.log)
  /\ ev' = [type |-> "close", ws |-> ws]
  /\ freed' = Freed(ev, log)
  /\ broken' = broken \ {ws}

Next ==
  \/ \E ws \in Handles : Connection(ws)
  \/ \E ws \in Handles : \E data \in SetNicknameFrames : SetNickname(ws, data)
  \/ \E ws \in Handles : \E data \in ChatFrames : Chat(ws, data)
  \/ \E ws \in Handles : \E data \in TypingFrames : Typing(ws, data)
  \/ \E ws \in Handles : \E data \in OtherFrames : Discard(ws, data)
  \/ \E ws \in Handles : Error(ws)
  \/ \E ws \in Handles : Close(ws)

Spec == Init /\ [][Next]_vars

(***************************************************************************)
(* The server with a few frames of each kind, with connections that fail   *)
(* underneath, and with one socket's outbound queue observed               *)
(***************************************************************************)
\* line 53, client.send(message), on a socket whose connection has failed
\* while its readyState is still OPEN: the transport takes the message and
\* fails without throwing; it reports the failure later, as an error event.
\* The failure itself runs no callback.
Break(ws) ==
  /\ readyState[ws] = "OPEN"
  /\ ws \notin broken
  /\ broken' = broken \cup {ws}
  /\ UNCHANGED <<wssClients, readyState, clients, ev, log, freed, outbox>>

\* a few frames of each kind
SomeSetNicknameFrames ==
  {f \in SetNicknameFrames :
     f.nickname \in {Num(7), Str(<<"a">>), Str(<<"a", "b">>), Str(<<"A", "B">>),
                     Str(<<"a", " ", "b">>)}}

SomeChatFrames == {f \in ChatFrames : f.message \in {Undefined, Str(<<"a">>)}}

SomeOtherFrames == {f \in OtherFrames : f.json = "invalid"}

NextSome ==
  \/ \E ws \in Handles : Connection(ws)
  \/ \E ws \in Handles : \E data \in SomeSetNicknameFrames : SetNickname(ws, data)
  \/ \E ws \in Handles : \E data \in SomeChatFrames : Chat(ws, data)
  \/ \E ws \in Handles : \E data \in TypingFrames : Typing(ws, data)
  \/ \E ws \in Handles : \E data \in SomeOtherFrames : Discard(ws, data)
  \/ \E ws \in Handles : Error(ws)
  \/ \E ws \in Handles : Close(ws)

NextFailing ==
  \/ NextSome
  \/ \E ws \in Handles : Break(ws)

SpecFailing == Init /\ [][NextFailing]_vars

\* the outbound queue of one socket, any of them, is observed
InitObserved ==
  /\ Started
  /\ outbox \in {[h \in {k} |-> <<>>] : k \in Handles}

SpecObserved == InitObserved /\ [][NextSome]_vars

(***************************************************************************)
(* Vocabulary of the properties, defined apart from the server's helpers   *)
(***************************************************************************)
\* the sockets whose transport state is open
OpenIn(rs) == {h \in Handles : rs[h] = "OPEN"}

\* the registered sockets that have a display name
NamedIn(cl) == {h \in Handles : has(cl, h) /\ cl[h].username # Null}

\* two characters that are the same letter in either case
SameLetter(x, y) ==
  \/ x = y
  \/ (x \in {"a", "A"} /\ y \in {"a", "A"})
  \/ (x \in {"b", "B"} /\ y \in {"b", "B"})

\* equality of two names under case-insensitive comparison
EqualIgnoringCase(a, b) ==
  /\ Len(a) = Len(b)
  /\ \A i \in 1..Len(a) : SameLetter(a[i], b[i])

\* raw from its first to its last character that is not a blank
TrimmedOf(raw) ==
  IF \A k \in 1..Len(raw) : raw[k] = " " THEN <<>>
  ELSE SubSeq(raw,
              CHOOSE k \in 1..Len(raw) :
                raw[k] # " " /\ \A q \in 1..(k - 1) : raw[q] = " ",
              CHOOSE k \in 1..Len(raw) :
                raw[k] # " " /\ \A q \in (k + 1)..Len(raw) : raw[q] = " ")

\* the name has fewer than 2 or more than 15 characters
BadLength(t) == Len(t) < 2 \/ Len(t) > 15

\* some registered display name equals t case-insensitively
TakenIn(cl, t) == \E h \in NamedIn(cl) : EqualIgnoringCase(cl[h].username.s, t)

\* e is a message event carrying a frame of the given type
IsFrame(e, type) ==
  /\ e.type = "message"
  /\ e.data.json = "object"
  /\ e.data.type = type

\* e is a SET_NICKNAME request whose nickname is a string
IsNameRequest(e) == IsFrame(e, "SET_NICKNAME") /\ e.data.nickname.t = "string"

\* the log l records an accepted nickname
Accepted(l) == Len(l) >= 1 /\ l[1].op = "username"

\* every entry of l from position a to position b is a send, and each socket
\* of the set to is the target of exactly one of them
OneSendEach(l, a, b, to) ==
  /\ b - a + 1 = Cardinality(to)
  /\ \A i \in a..b : l[i].op = "send"
  /\ {l[i].ws : i \in a..b} = to

(***************************************************************************)
(* C1: in every reachable state no two registered sessions hold display    *)
(* names that are equal under case-insensitive comparison.                 *)
(***************************************************************************)
C1_UniqueNames ==
  \A g \in NamedIn(clients) : \A h \in NamedIn(clients) :
    g # h => ~EqualIgnoringCase(clients[g].username.s, clients[h].username.s)

\* a nickname was just accepted while another session already held a name
C1_Witness ==
  /\ Cardinality(NamedIn(clients)) >= 2
  /\ IsNameRequest(ev)
  /\ Accepted(log)

C3_Validation ==
  [][IsNameRequest(ev') =>
       \A t \in {TrimmedOf(ev'.data.nickname.s)} :
       \A taken \in {TakenIn(clients, t)} :
       LET ws == ev'.ws
       IN /\ (log' = <<SendTo(ws, LengthErrorPayload)>>) <=> BadLength(t)
          /\ ~BadLength(t) =>
               ((log' = <<SendTo(ws, NameTakenPayload(t))>>) <=> taken)
          /\ (~BadLength(t) /\ ~taken) <=> Accepted(log')
          /\ Accepted(log') =>
               /\ clients'[ws].username = Str(t)
               /\ log'[1] = SetUsername(ws, clients[ws].username, t)
    ]_vars

\* a name sent with blanks around it was accepted and stored without them
C3_Witness ==
  /\ IsNameRequest(ev)
  /\ Accepted(log)
  /\ clients[ev.ws].username.s # ev.data.nickname.s
  /\ Len(clients[ev.ws].username.s) = 15

(***************************************************************************)
(* C4: when a SET_NICKNAME request fails validation (invalid length or     *)
(* name taken), exactly one SYSTEM error is sent, to the requester only,   *)
(* and the registry, the requester's entry included, is unchanged.         *)
(***************************************************************************)
C4_RejectionIsLocal ==
  [][(/\ IsFrame(ev', "SET_NICKNAME")
      /\ LET v == ev'.data.nickname
         IN \/ v \in {Undefined, Num(0)}
            \/ /\ v.t = "string"
               /\ \E t \in {TrimmedOf(v.s)} : BadLength(t) \/ TakenIn(clients, t))
     => /\ Len(log') = 1
        /\ log'[1].op = "send"
        /\ log'[1].ws = ev'.ws
        /\ log'[1].payload.type = "SYSTEM"
        /\ "nickname" \notin DOMAIN log'[1].payload
        /\ clients' = clients
    ]_vars

\* a taken name was refused while another connection was open
C4_Witness ==
  /\ IsNameRequest(ev)
  /\ log = <<SendTo(ev.ws, NameTakenPayload(TrimmedOf(ev.data.nickname.s)))>>
  /\ OpenIn(readyState) \ {ev.ws} # {}

(***************************************************************************)
(* C5: when a SET_NICKNAME request succeeds the handler, in this order,    *)
(* sets the requester's display name, sends a SYSTEM confirmation carrying *)
(* the accepted nickname to the requester only, sends a join (first name)  *)
(* or rename (already named) SYSTEM message to every open connection but   *)
(* the requester, then sends a USER_LIST_UPDATE to every open connection,  *)
(* the requester included.                                                 *)
(***************************************************************************)
C5_AcceptOrder ==
  [][(/\ IsNameRequest(ev')
      /\ \E t \in {TrimmedOf(ev'.data.nickname.s)} :
           ~BadLength(t) /\ ~TakenIn(clients, t))
     => \A t \in {TrimmedOf(ev'.data.nickname.s)} :
        LET ws == ev'.ws
            old == clients[ws].username
            open == OpenIn(readyState')
            n == Cardinality(open \ {ws})
            m == Cardinality(open)
        IN /\ Len(log') = 2 + n + m
           /\ log'[1] = SetUsername(ws, old, t)
           /\ clients' = [clients EXCEPT ![ws].username = Str(t)]
           /\ log'[2].op = "send"
           /\ log'[2].ws = ws
           /\ log'[2].payload.type = "SYSTEM"
           /\ "nickname" \in DOMAIN log'[2].payload
           /\ log'[2].payload.nickname = t
           /\ OneSendEach(log', 3, 2 + n, open \ {ws})
           /\ \A i \in 3..(2 + n) :
                log'[i].payload =
                  [type |-> "SYSTEM",
                   message |-> IF old = Null
                               THEN t \o <<" joined the chat room.">>
                               ELSE old.s \o <<" renamed to ">> \o t]
           /\ OneSendEach(log', 3 + n, 2 + n + m, open)
           /\ \A i \in (3 + n)..(2 + n + m) :
                log'[i].payload.type = "USER_LIST_UPDATE"
    ]_vars

\* a rename was accepted while another connection was open
C5_Witness ==
  /\ IsNameRequest(ev)
  /\ Accepted(log)
  /\ log[1].old # Null
  /\ OpenIn(readyState) \ {ev.ws} # {}

(***************************************************************************)
(* C6: a CHAT message with a valid body from a named client makes exactly  *)
(* one CHAT event (sender = the client's display name, message = trimmed   *)
(* body) go to every other open connection, named or anonymous, and none   *)
(* to the sender.                                                          *)
(***************************************************************************)
C6_ChatFanOut ==
  [][(/\ IsFrame(ev', "CHAT")
      /\ clients[ev'.ws].username # Null
      /\ ev'.data.message.t = "string"
      /\ TrimmedOf(ev'.data.message.s) # <<>>)
     => LET ws == ev'.ws
            others == OpenIn(readyState') \ {ws}
        IN /\ OneSendEach(log', 1, Len(log'), others)
           /\ \A i \in 1..Len(log') :
                log'[i].payload =
                  [type |-> "CHAT",
                   sender |-> clients[ws].username.s,
                   message |-> TrimmedOf(ev'.data.message.s)]
           /\ clients' = clients
    ]_vars

\* a chat body sent with blanks around it reached an anonymous connection
C6_Witness ==
  /\ IsFrame(ev, "CHAT")
  /\ Len(log) >= 1
  /\ log[1].payload.type = "CHAT"
  /\ log[1].payload.message # ev.data.message.s
  /\ clients[log[1].ws].username = Null

(***************************************************************************)
(* C7: a CHAT message is dropped, with no outbound message and no registry *)
(* change, whenever the sender has no display name or the body is absent,  *)
(* is not a string, or is empty after trimming.                            *)
(***************************************************************************)
C7_ChatDropped ==
  [][(/\ IsFrame(ev', "CHAT")
      /\ \/ clients[ev'.ws].username = Null
         \/ ev'.data.message.t # "string"
         \/ TrimmedOf(ev'.data.message.s) = <<>>)
     => /\ log' = <<>>
        /\ clients' = clients
    ]_vars

\* a named client sent a body of blanks while another connection was open,
\* and nothing was sent
C7_Witness ==
  /\ IsFrame(ev, "CHAT")
  /\ clients[ev.ws].username # Null
  /\ ev.data.message = Str(<<" ">>)
  /\ OpenIn(readyState) \ {ev.ws} # {}
  /\ log = <<>>

(***************************************************************************)
(* C8: when a connection that never set a nickname closes, its entry is    *)
(* removed from the registry and no departure message and no               *)
(* USER_LIST_UPDATE is sent to any connection.                             *)
(***************************************************************************)
C8_AnonymousClose ==
  [][(/\ ev'.type = "close"
      /\ has(clients, ev'.ws)
      /\ clients[ev'.ws].username = Null)
     => /\ ~has(clients', ev'.ws)
        /\ \A i \in 1..Len(log') : log'[i].op # "send"
        /\ \A h \in Handles \ {ev'.ws} : clients'[h] = clients[h]
    ]_vars

\* an anonymous connection closed while a named connection was open
C8_Witness ==
  /\ ev.type = "close"
  /\ log = <<MapDelete(ev.ws, [id |-> ev.ws, username |-> Null])>>
  /\ \E h \in OpenIn(readyState) : clients[h].username # Null

(***************************************************************************)
(* C9: when a named connection closes, its entry is removed first, then a  *)
(* SYSTEM departure message and then a USER_LIST_UPDATE go to every        *)
(* remaining open connection; the list sent does not contain the departed  *)
(* name and the closed connection receives neither message.                *)
(***************************************************************************)
C9_NamedClose ==
  [][(/\ ev'.type = "close"
      /\ has(clients, ev'.ws)
      /\ clients[ev'.ws].username # Null)
     => LET ws == ev'.ws
            name == clients[ws].username.s
            open == OpenIn(readyState') \ {ws}
            m == Cardinality(open)
        IN /\ ~has(clients', ws)
           /\ Len(log') = 1 + 2 * m
           /\ log'[1] = MapDelete(ws, clients[ws])
           /\ OneSendEach(log', 2, 1 + m, open)
           /\ \A i \in 2..(1 + m) :
                log'[i].payload =
                  [type |-> "SYSTEM",
                   sender |-> SystemSender,
                   message |-> name \o <<" left the chat room.">>]
           /\ OneSendEach(log', 2 + m, 1 + 2 * m, open)
           /\ \A i \in (2 + m)..(1 + 2 * m) :
                /\ log'[i].payload.type = "USER_LIST_UPDATE"
                /\ \A k \in 1..Len(log'[i].payload.users) :
                     log'[i].payload.users[k] # name
           /\ \A i \in 1..Len(log') : log'[i].ws = ws => log'[i].op # "send"
    ]_vars

\* a named connection closed and an open connection got both messages
C9_Witness ==
  /\ ev.type = "close"
  /\ Len(log) = 3
  /\ log[1].was.username # Null
  /\ log[3].payload.type = "USER_LIST_UPDATE"

(***************************************************************************)
(* C10: after a client renames from X to Y, a SET_NICKNAME that another    *)
(* client sends next succeeds for any casing of X and fails with the       *)
(* name-taken error for any casing of Y; after a named client closes, a    *)
(* SET_NICKNAME that another client sends next for its name succeeds.      *)
(***************************************************************************)
C10_OldNameReleased ==
  [][(IsNameRequest(ev') /\ ev'.ws # ev.ws)
     => \A t \in {TrimmedOf(ev'.data.nickname.s)} :
        LET d == ev'.ws
            renamed == IsNameRequest(ev) /\ Accepted(log) /\ log[1].old # Null
            closed == /\ ev.type = "close"
                      /\ log[1].was # NoEntry
                      /\ log[1].was.username # Null
        IN /\ (renamed /\ EqualIgnoringCase(t, log[1].old.s))
                => (Accepted(log') /\ clients'[d].username = Str(t))
           /\ (renamed /\ EqualIgnoringCase(t, log[1].new))
                => (log' = <<SendTo(d, NameTakenPayload(t))>> /\ clients' = clients)
           /\ (closed /\ EqualIgnoringCase(t, log[1].was.username.s))
                => (Accepted(log') /\ clients'[d].username = Str(t))
    ]_vars

\* right after a client gave up a name by renaming, another client was
\* given that name in another casing
C10_Witness ==
  /\ freed.ws # 0
  /\ IsNameRequest(ev)
  /\ ev.ws # freed.ws
  /\ Accepted(log)
  /\ has(clients, freed.ws)
  /\ EqualIgnoringCase(log[1].new, freed.name)
  /\ log[1].new # freed.name

(***************************************************************************)
(* C11 as stated: on connect the handler registers the connection as       *)
(* anonymous and sends a system welcome message to the new connection      *)
(* only; no message goes to any other connection.                          *)
(***************************************************************************)
C11_WelcomeOnConnect ==
  [][ev'.type = "connection"
     => /\ clients'[ev'.ws].username = Null
        /\ \E i \in 1..Len(log') :
             /\ log'[i].op = "send"
             /\ log'[i].ws = ev'.ws
             /\ log'[i].payload.type = "SYSTEM"
        /\ \A i \in 1..Len(log') : log'[i].op = "send" => log'[i].ws = ev'.ws
    ]_vars

(***************************************************************************)
(* C11 amended: on connect the handler of the nickname server registers    *)
(* the connection as anonymous and sends no message at all, neither to the *)
(* new connection nor to any other; the other sessions are left as they    *)
(* were.  (The welcome is sent later, with the nickname confirmation.)     *)
(***************************************************************************)
C11_SilentConnect ==
  [][ev'.type = "connection"
     => /\ ~has(clients, ev'.ws)
        /\ clients'[ev'.ws] = [id |-> ev'.ws, username |-> Null]
        /\ \A h \in Handles \ {ev'.ws} : clients'[h] = clients[h]
        /\ \A i \in 1..Len(log') : log'[i].op # "send"
    ]_vars

\* a connection was accepted while a named connection was open
C11_Witness ==
  /\ ev.type = "connection"
  /\ clients[ev.ws].username = Null
  /\ \E h \in OpenIn(readyState) \ {ev.ws} : clients[h].username # Null

(***************************************************************************)
(* C13 as stated: an inbound message that fails to decode as JSON, decodes *)
(* to a non-object, or has an unrecognized type, a SET_NICKNAME whose      *)
(* nickname field is not a string included, is discarded: the registry is  *)
(* unchanged, the connection stays open and registered, and no message is  *)
(* sent to anyone.                                                         *)
(***************************************************************************)
C13_NonStringDiscarded ==
  [][(/\ ev'.type = "message"
      /\ \/ ev'.data.json # "object"
         \/ ev'.data.type \notin {"SET_NICKNAME", "CHAT", "TYPING_START", "TYPING_STOP"}
         \/ (ev'.data.type = "SET_NICKNAME" /\ ev'.data.nickname.t # "string"))
     => /\ log' = <<>>
        /\ clients' = clients
        /\ readyState' = readyState
        /\ wssClients' = wssClients
    ]_vars

(***************************************************************************)
(* C13 amended: an inbound message that fails to decode as JSON, decodes   *)
(* to a non-object, has an unrecognized type, or is a SET_NICKNAME whose   *)
(* nickname is a truthy value that is not a string, is discarded: the      *)
(* registry is unchanged, the connection stays open and registered, and no *)
(* message is sent to anyone.  A SET_NICKNAME whose nickname is absent or  *)
(* falsy is not discarded: it is treated as the empty name and answered    *)
(* with the length error, sent to the requester only.                      *)
(***************************************************************************)
C13_Discarded ==
  [][(ev'.type = "message"
      => /\ (\/ ev'.data.json # "object"
             \/ ev'.data.type \notin {"SET_NICKNAME", "CHAT", "TYPING_START", "TYPING_STOP"}
             \/ /\ ev'.data.type = "SET_NICKNAME"
                /\ ev'.data.nickname.t # "string"
                /\ Truthy(ev'.data.nickname))
            => /\ log' = <<>>
               /\ clients' = clients
               /\ readyState' = readyState
               /\ wssClients' = wssClients
               /\ has(clients', ev'.ws)
               /\ readyState'[ev'.ws] = "OPEN"
         /\ (/\ ev'.data.json = "object"
             /\ ev'.data.type = "SET_NICKNAME"
             /\ ev'.data.nickname.t # "string"
             /\ ~Truthy(ev'.data.nickname))
            => /\ log' = <<SendTo(ev'.ws, LengthErrorPayload)>>
               /\ clients' = clients
               /\ readyState' = readyState)
    ]_vars

\* a frame that is not JSON was discarded while a named connection was open
C13_Witness ==
  /\ ev.type = "message"
  /\ ev.data.json = "invalid"
  /\ log = <<>>
  /\ has(clients, ev.ws)
  /\ \E h \in OpenIn(readyState) \ {ev.ws} : clients[h].username # Null

(***************************************************************************)
(* C14: a TYPING_START or TYPING_STOP from a named client makes the server *)
(* send an event of the same type, carrying the sender's display name, to  *)
(* every other open connection and not to the sender; from an anonymous    *)
(* client it produces no outbound message.                                 *)
(***************************************************************************)
C14_TypingRelay ==
  [][(IsFrame(ev', "TYPING_START") \/ IsFrame(ev', "TYPING_STOP"))
     => LET ws == ev'.ws
            others == OpenIn(readyState') \ {ws}
        IN /\ clients' = clients
           /\ clients[ws].username = Null => log' = <<>>
           /\ clients[ws].username # Null
                => /\ OneSendEach(log', 1, Len(log'), others)
                   /\ \A i \in 1..Len(log') :
                        log'[i].payload = [type |-> ev'.data.type,
                                           sender |-> clients[ws].username.s]
    ]_vars

\* a TYPING_STOP of a named client reached another connection
C14_Witness ==
  /\ IsFrame(ev, "TYPING_STOP")
  /\ Len(log) >= 1
  /\ log[1].ws # ev.ws
  /\ log[1].payload.type = "TYPING_STOP"

RegistryHandles(cl) == {h \in Handles : has(cl, h)}

\* position i of the log of event e is a send of a broadcast: every send is,
\* but the single reply of a SET_NICKNAME (the error, or the confirmation
\* that follows the write)
IsBroadcastSend(e, l, i) ==
  /\ l[i].op = "send"
  /\ ~(IsFrame(e, "SET_NICKNAME") /\ i = (IF Accepted(l) THEN 2 ELSE 1))

\* the handle a broadcast of payload p of event e leaves out: the user list
\* and the broadcasts of a close leave out none
ExcludedHandle(e, p) ==
  IF p.type = "USER_LIST_UPDATE" \/ e.type = "close" THEN {} ELSE {e.ws}

(***************************************************************************)
(* C17: for every broadcast, the connections to which a send is attempted  *)
(* are exactly the registry's handles at the start of the broadcast, minus *)
(* the excluded handle, minus the handles that are not open, each of them  *)
(* once: the fan-out neither adds, drops nor repeats a recipient.  (The    *)
(* fan-out walks the transport's set of sockets, which holds the same      *)
(* handles as the registry whenever a broadcast starts.)                   *)
(***************************************************************************)
C17_BroadcastTargets ==
  [][/\ RegistryHandles(clients') = wssClients'
     /\ \A i \in 1..Len(log') :
          IsBroadcastSend(ev', log', i)
          => \A to \in {(RegistryHandles(clients') \cap OpenIn(readyState'))
                         \ ExcludedHandle(ev', log'[i].payload)} :
             \A same \in {{k \in 1..Len(log') :
                             /\ IsBroadcastSend(ev', log', k)
                             /\ log'[k].payload = log'[i].payload}} :
               /\ {log'[k].ws : k \in same} = to
               /\ Cardinality(same) = Cardinality(to)
     /\ Accepted(log')
        => \A h \in RegistryHandles(clients') \cap OpenIn(readyState') :
             \E i \in 1..Len(log') : log'[i] = SendTo(h, UserListPayload(clients'))
    ]_vars

\* a nickname was accepted while a registered connection was closing: the
\* user list went to the requester alone
C17_Witness ==
  /\ IsFrame(ev, "SET_NICKNAME")
  /\ Accepted(log)
  /\ Len(log) = 3
  /\ log[3] = SendTo(ev.ws, UserListPayload(clients))
  /\ \E h \in RegistryHandles(clients) : readyState[h] = "CLOSING"

(***************************************************************************)
(* C18: the uniqueness check and the registry write of a SET_NICKNAME are  *)
(* atomic with respect to every other handler invocation: when two         *)
(* connections ask for names that are equal under case-insensitive         *)
(* comparison one right after the other, in either order, the one handled  *)
(* second sees the write of the first and fails with the name-taken error, *)
(* so at most one of them succeeds.                                        *)
(***************************************************************************)
C18_SecondRequestFails ==
  [][(/\ IsNameRequest(ev)
      /\ Accepted(log)
      /\ IsNameRequest(ev')
      /\ ev'.ws # ev.ws)
     => \A t \in {TrimmedOf(ev'.data.nickname.s)} :
          EqualIgnoringCase(t, log[1].new)
          => /\ clients[ev.ws].username = Str(log[1].new)
             /\ log' = <<SendTo(ev'.ws, NameTakenPayload(t))>>
             /\ ~Accepted(log')
             /\ clients' = clients
    ]_vars

\* an anonymous client was refused a name that differs only in case from
\* the name another connection holds
C18_Witness ==
  /\ IsNameRequest(ev)
  /\ clients[ev.ws].username = Null
  /\ \E t \in {TrimmedOf(ev.data.nickname.s)} :
       /\ log = <<SendTo(ev.ws, NameTakenPayload(t))>>
       /\ \E c \in NamedIn(clients) \ {ev.ws} :
            /\ EqualIgnoringCase(clients[c].username.s, t)
            /\ clients[c].username.s # t

LetterRank(ch) ==
  CASE ch = " " -> 0
    [] ch \in {"a", "A"} -> 1
    [] ch \in {"b", "B"} -> 2
    [] OTHER -> 3

\* a comes before b, or at the place of b, in alphabetical order
AlphaBefore(a, b) ==
  \/ \E k \in 1..Len(a) :
       /\ k <= Len(b)
       /\ \A q \in 1..(k - 1) : LetterRank(a[q]) = LetterRank(b[q])
       /\ LetterRank(a[k]) < LetterRank(b[k])
  \/ /\ Len(a) <= Len(b)
     /\ \A q \in 1..Len(a) : LetterRank(a[q]) = LetterRank(b[q])

\* the display names of the registry
RegistryNames(cl) == {cl[h].username.s : h \in NamedIn(cl)}

\* position i of the log l is a send of a user list
IsUserListSend(l, i) == l[i].op = "send" /\ l[i].payload.type = "USER_LIST_UPDATE"

\* after an accepted nickname or a named close, the last user list sent to
\* each open connection holds the registry's names
LastListIsCurrent(e, l, cl, rs) ==
  (Accepted(l) \/ (e.type = "close" /\ l[1].was # NoEntry /\ l[1].was.username # Null))
  => \A h \in OpenIn(rs) :
       \E i \in 1..Len(l) :
         /\ IsUserListSend(l, i)
         /\ l[i].ws = h
         /\ \A j \in (i + 1)..Len(l) : ~(IsUserListSend(l, j) /\ l[j].ws = h)
         /\ {l[i].payload.users[k] : k \in 1..Len(l[i].payload.users)} = RegistryNames(cl)

(***************************************************************************)
(* C12 as stated: every USER_LIST_UPDATE carries the users alphabetically  *)
(* sorted, without duplicates, and they are exactly the registry's display *)
(* names at the time of the broadcast; so after every accepted nickname    *)
(* (first name or rename) and every named disconnect, the last             *)
(* USER_LIST_UPDATE sent to each connection open at that moment holds the  *)
(* registry's current names.                                               *)
(***************************************************************************)
C12_AlphabeticalUserList ==
  [][/\ \A i \in 1..Len(log') :
          IsUserListSend(log', i)
          => \A u \in {log'[i].payload.users} :
               /\ \A k \in 1..(Len(u) - 1) : AlphaBefore(u[k], u[k + 1])
               /\ \A j, k \in 1..Len(u) : j # k => u[j] # u[k]
               /\ {u[k] : k \in 1..Len(u)} = RegistryNames(clients')
     /\ LastListIsCurrent(ev', log', clients', readyState')
    ]_vars

(***************************************************************************)
(* C12 with the order the code produces: the users of every                *)
(* USER_LIST_UPDATE are in the order of their UTF-16 code units, every     *)
(* capital letter before every small one; the rest of C12 as stated.       *)
(***************************************************************************)
C12_CodeUnitUserList ==
  [][/\ \A i \in 1..Len(log') :
          IsUserListSend(log', i)
          => \A u \in {log'[i].payload.users} :
               /\ \A k \in 1..(Len(u) - 1) : StrLeq(u[k], u[k + 1])
               /\ \A j, k \in 1..Len(u) : j # k => u[j] # u[k]
               /\ {u[k] : k \in 1..Len(u)} = RegistryNames(clients')
     /\ LastListIsCurrent(ev', log', clients', readyState')
    ]_vars

\* a user list was sent whose users are not in alphabetical order
C12_Witness ==
  \E i \in 1..Len(log) :
    /\ IsUserListSend(log, i)
    /\ Len(log[i].payload.users) = 2
    /\ ~AlphaBefore(log[i].payload.users[1], log[i].payload.users[2])

====
